---- MODULE Spec2Model ----
(***************************************************************************)
(* FreshView: the Video class (js/video.js) and the Extractor class with   *)
(* its subextractor functions, over a small live DOM.                      *)
(*                                                                         *)
(* JavaScript strings that the code takes apart (href, style.width, the    *)
(* derived id) are sequences of one-character strings; strings that are    *)
(* only compared (tag names, class names, display values) are TLA+ strings.*)
(***************************************************************************)
EXTENDS Integers, Sequences, FiniteSets, TLC

\* ------------------------------------------------------------------ bounds

\* Number of video renderer elements under the root element.
NumElems == 2

\* Number of Video objects the caller holds at most.
MaxVideos == 2

\* Largest progress-bar width and threshold, in percent.
MaxPercent == 100

\* ------------------------------------------------------- JavaScript values

Undefined == [k |-> "undefined", b |-> FALSE, s |-> <<>>]

Bool(x) == [k |-> "boolean", b |-> x, s |-> <<>>]

Str(x) == [k |-> "string", b |-> FALSE, s |-> x]

\* What a call that ends in "TypeError: Cannot read properties of null" yields.
TypeError == [k |-> "TypeError", b |-> FALSE, s |-> <<>>]

\* ToBoolean: undefined, false and "" are falsy.
Truthy(v) == (v.k = "boolean" /\ v.b) \/ (v.k = "string" /\ v.s # <<>>)

\* a || b
Or(a, b) == IF Truthy(a) THEN a ELSE b

\* An attribute value: <<>> when the attribute is absent (getAttribute gives
\* null), <<s>> when it is present with value s.
NoAttr == <<>>

Attr(s) == <<s>>

Digits == <<"0", "1", "2", "3", "4", "5", "6", "7", "8", "9">>

DigitSet == {Digits[i] : i \in 1..10}

DigitVal(c) == (CHOOSE i \in 1..10 : Digits[i] = c) - 1

\* String(n) for a non-negative integer n.
RECURSIVE IntToStr(_)
IntToStr(n) == IF n < 10 THEN <<Digits[n + 1]>>
               ELSE IntToStr(n \div 10) \o <<Digits[(n % 10) + 1]>>

\* s.slice(0, -1)
SliceDropLast(s) == IF Len(s) = 0 THEN <<>> ELSE SubSeq(s, 1, Len(s) - 1)

WhiteSpace == {" "}

RECURSIVE SkipSpace(_)
SkipSpace(s) == IF s # <<>> /\ Head(s) \in WhiteSpace THEN SkipSpace(Tail(s)) ELSE s

RECURSIVE DigitRun(_)
DigitRun(s) == IF s # <<>> /\ Head(s) \in DigitSet THEN <<Head(s)>> \o DigitRun(Tail(s))
               ELSE <<>>

RECURSIVE DigitsValue(_, _)
DigitsValue(s, acc) == IF s = <<>> THEN acc
                       ELSE DigitsValue(Tail(s), acc * 10 + DigitVal(Head(s)))

\* parseInt(s, 10): leading white space, an optional sign, then the longest run
\* of decimal digits; NaN when there is no digit.
ParseInt(s) ==
    LET t == SkipSpace(s)
        neg == t # <<>> /\ Head(t) = "-"
        u == IF t # <<>> /\ Head(t) \in {"-", "+"} THEN Tail(t) ELSE t
        d == DigitRun(u)
    IN  IF d = <<>> THEN [nan |-> TRUE, n |-> 0]
        ELSE [nan |-> FALSE, n |-> IF neg THEN 0 - DigitsValue(d, 0) ELSE DigitsValue(d, 0)]

\* NumGE with the boundary left out.
NumGT(p, threshold) == ~p.nan /\ p.n > threshold

\* progress >= threshold, false when progress is NaN.
NumGE(p, threshold) == ~p.nan /\ p.n >= threshold

\* The character class [a-zA-Z0-9_\-] of the video-id pattern.
LowerCase == {"a", "b", "c", "d", "e", "f", "g", "h", "i", "j", "k", "l", "m",
              "n", "o", "p", "q", "r", "s", "t", "u", "v", "w", "x", "y", "z"}

UpperCase == {"A", "B", "C", "D", "E", "F", "G", "H", "I", "J", "K", "L", "M",
              "N", "O", "P", "Q", "R", "S", "T", "U", "V", "W", "X", "Y", "Z"}

IdChars == LowerCase \cup UpperCase \cup DigitSet \cup {"_", "-"}

RECURSIVE IdRun(_)
IdRun(s) == IF s # <<>> /\ Head(s) \in IdChars THEN <<Head(s)>> \o IdRun(Tail(s)) ELSE <<>>

\* href.match(/v=([a-zA-Z0-9_\-]+)/): the capture group of the leftmost match,
\* or <<>> (no match: match() gives null).
RECURSIVE RegexMatch(_)
RegexMatch(href) ==
    IF Len(href) < 3 THEN <<>>
    ELSE IF href[1] = "v" /\ href[2] = "=" /\ href[3] \in IdChars
         THEN IdRun(SubSeq(href, 3, Len(href)))
         ELSE RegexMatch(Tail(href))

\* ------------------------------------------------------------------- DOM

\* A node inside a video element's subtree.
Node(tag, id, classes, href, title, text, width) ==
    [tag |-> tag, id |-> id, classes |-> classes, href |-> href,
     title |-> title, text |-> text, width |-> width]

\* A compound selector: a tag ("" for any), an id ("" for none), the classes
\* and the attributes it requires.
Sel(tag, id, classes, attrs) ==
    [tag |-> tag, id |-> id, classes |-> classes, attrs |-> attrs]

HasAttr(node, a) == IF a = "title" THEN node.title # NoAttr
                    ELSE IF a = "href" THEN node.href # NoAttr
                    ELSE FALSE

Matches(node, sel) ==
    /\ sel.tag = "" \/ node.tag = sel.tag
    /\ sel.id = "" \/ node.id = sel.id
    /\ sel.classes \subseteq node.classes
    /\ \A a \in sel.attrs : HasAttr(node, a)

MatchesAny(node, sels) == \E i \in 1..Len(sels) : Matches(node, sels[i])

\* element.querySelector(":scope s1, :scope s2, ..."): the position of the
\* first descendant, in document order, that matches any selector of the
\* list; 0 for null.
QuerySelector(nodes, sels) ==
    LET hits == {i \in 1..Len(nodes) : MatchesAny(nodes[i], sels)}
    IN  IF hits = {} THEN 0 ELSE CHOOSE i \in hits : \A j \in hits : i <= j

\* The anchor selectors of deriveURL, in the order of the list.
AnchorSelectors == <<
    Sel("a", "video-title", {"yt-simple-endpoint", "style-scope", "ytd-grid-video-renderer"}, {}),
    Sel("a", "video-title-link", {"yt-simple-endpoint", "style-scope", "ytd-rich-grid-media"}, {}),
    Sel("a", "", {"yt-simple-endpoint", "style-scope", "ytd-playlist-video-renderer"}, {}),
    Sel("a", "", {"yt-simple-endpoint", "style-scope", "ytd-playlist-panel-video-renderer"}, {}),
    Sel("a", "", {"yt-lockup-metadata-view-model-wiz__title"}, {}),
    Sel("a", "", {"yt-simple-endpoint", "style-scope", "ytd-compact-video-renderer"}, {}),
    Sel("a", "video-title", {"yt-simple-endpoint", "style-scope", "ytd-video-renderer"}, {}),
    Sel("a", "", {"yt-lockup-view-model__title"}, {}),
    Sel("a", "", {"yt-lockup-view-model__content-image"}, {}) >>

\* The progress bar selectors of getViewed.
BarSelectors == <<
    Sel("div", "", {"ytThumbnailOverlayProgressBarHostWatchedProgressBarSegment"}, {}),
    Sel("div", "progress", {"style-scope", "ytd-thumbnail-overlay-resume-playback-renderer"}, {}) >>

\* The two title selectors of fetchTitle, tried one after the other.
TitleSelectorOld == << Sel("", "video-title", {}, {"title"}) >>

TitleSelectorNew == << Sel("a", "", {"yt-lockup-view-model__title"}, {}) >>

\* textContent.trim()
RECURSIVE TrimRight(_)
TrimRight(s) == IF s # <<>> /\ s[Len(s)] \in WhiteSpace THEN TrimRight(SliceDropLast(s)) ELSE s

Trim(s) == TrimRight(SkipSpace(s))

\* ------------------------------------------------------------ the page

Elems == 1..NumElems

\* The ancestors of the video elements: the root element handed to extract,
\* <body> (after <head>), <html> and the document, which alone has no id
\* property.
RootNode == 0

BodyNode == -1

HeadNode == -2

HtmlNode == -3

DocumentNode == -4

\* null
NullNode == -5

ParentNode(n) == IF n \in Elems THEN RootNode
                 ELSE IF n = RootNode THEN BodyNode
                 ELSE IF n \in {BodyNode, HeadNode} THEN HtmlNode
                 ELSE IF n = HtmlNode THEN DocumentNode
                 ELSE NullNode

PreviousSibling(n) == IF n \in Elems /\ n > 1 THEN n - 1
                      ELSE IF n = BodyNode THEN HeadNode
                      ELSE NullNode

\* node.id !== undefined: every element has an id property, the document none.
HasIdProperty(n) == n # DocumentNode

\* The tag, classes and is-history attribute of a video element.
Renderer(tag, classes, hist) == [tag |-> tag, classes |-> classes, isHistory |-> hist]

\* The renderers of the page: one that two layouts' selectors both match, one
\* of the Explore page, one that both grid selectors match.
Layouts == <<
    Renderer("ytd-video-renderer",
             {"style-scope", "ytd-expanded-shelf-contents-renderer", "ytd-vertical-list-renderer"}, FALSE),
    Renderer("ytd-video-renderer", {"style-scope", "ytd-expanded-shelf-contents-renderer"}, FALSE),
    Renderer("ytd-grid-video-renderer",
             {"style-scope", "yt-horizontal-list-renderer", "ytd-grid-renderer"}, FALSE) >>

Layout(e) == Layouts[((e - 1) % Len(Layouts)) + 1]

\* A selector of a subextractor: tag, classes and, for hist, "yes" for
\* [is-history], "no" for :not([is-history]), "any" otherwise.
VSel(tag, classes, hist) == [tag |-> tag, classes |-> classes, hist |-> hist]

VMatches(r, sel) ==
    /\ r.tag = sel.tag
    /\ sel.classes \subseteq r.classes
    /\ sel.hist = "any" \/ (sel.hist = "yes") = r.isHistory

\* The selectors each subextractor function passes to extract(element, ...).
SubSelectors(name) ==
    CASE name = "extractExploreVideos" ->
           << VSel("ytd-video-renderer", {"style-scope", "ytd-expanded-shelf-contents-renderer"}, "any") >>
      [] name = "extractGridVideos" ->
           << VSel("ytd-grid-video-renderer", {"style-scope", "yt-horizontal-list-renderer"}, "any"),
              VSel("ytd-grid-video-renderer", {"style-scope", "ytd-grid-renderer"}, "any") >>
      [] name = "extractHistoryVideos" ->
           << VSel("ytd-video-renderer", {"style-scope", "ytd-item-section-renderer"}, "yes") >>
      [] name = "extractHomeVideos" ->
           << VSel("yt-lockup-view-model", {"ytd-rich-item-renderer", "lockup"}, "any"),
              VSel("ytd-rich-item-renderer", {"style-scope", "ytd-rich-shelf-renderer"}, "any") >>
      [] name = "extractPlaylistVideos" ->
           << VSel("ytd-playlist-video-renderer", {"style-scope", "ytd-playlist-video-list-renderer"}, "any"),
              VSel("ytd-playlist-panel-video-renderer", {"style-scope", "ytd-playlist-panel-renderer"}, "any") >>
      [] name = "extractRecommendedVideos" ->
           << VSel("yt-lockup-view-model", {"ytd-item-section-renderer", "lockup"}, "any") >>
      [] name = "extractSearchVideos" ->
           << VSel("ytd-video-renderer", {"style-scope", "ytd-vertical-list-renderer"}, "any"),
              VSel("ytd-video-renderer", {"style-scope", "ytd-item-section-renderer"}, "no") >>

Subextractors == {"extractExploreVideos", "extractGridVideos", "extractHistoryVideos",
                  "extractHomeVideos", "extractPlaylistVideos", "extractRecommendedVideos",
                  "extractSearchVideos"}

\* Array.from(element.querySelectorAll(`:scope ${selector}`)) on the root: the
\* video elements matching the selector, in document order. (The nodes inside
\* a video element are <a> and <div>, which no subextractor selector matches.)
RECURSIVE QuerySelectorAll(_, _)
QuerySelectorAll(sel, from) ==
    IF from > NumElems THEN <<>>
    ELSE (IF VMatches(Layout(from), sel) THEN <<from>> ELSE <<>>)
         \o QuerySelectorAll(sel, from + 1)

\* function extract(element, ...selectors): the matches of each selector, one
\* selector after the other.
RECURSIVE ExtractElements(_)
ExtractElements(selectors) ==
    IF selectors = <<>> THEN <<>>
    ELSE QuerySelectorAll(Head(selectors), 1) \o ExtractElements(Tail(selectors))

\* One of the subextractor functions applied to the root.
Subextractor(name) == ExtractElements(SubSelectors(name))

\* -------------------------------------------------------------- state

VARIABLES
    display,        \* display[e]: element.style.display of video element e
    kids,           \* kids[e]: the descendants of video element e, in document order
    subextractors,  \* Extractor.subextractors: a Set, kept in insertion order
    videos,         \* the Video objects the caller holds
    last            \* the last call made and what it returned

vars == <<display, kids, subextractors, videos, last>>

\* ------------------------------------------------------------- Video

\* constructor(element)
NewVideo(e) == [element |-> e, display |-> display[e], id |-> Undefined,
                title |-> Undefined, viewed |-> Undefined]

\* deriveURL() on a Video whose element has the descendants nodes.
DeriveURL(nodes) ==
    LET hyperlink == QuerySelector(nodes, AnchorSelectors) IN
    IF hyperlink = 0 THEN Undefined
    ELSE LET href == nodes[hyperlink].href IN
         IF href = NoAttr THEN TypeError
         ELSE LET m == RegexMatch(href[1]) IN
              IF m = <<>> THEN Undefined ELSE Str(m)

RECURSIVE SiblingIndex(_)
SiblingIndex(node) == IF PreviousSibling(node) = NullNode THEN 0
                      ELSE 1 + SiblingIndex(PreviousSibling(node))

RECURSIVE PathFrom(_, _)
PathFrom(node, path) ==
    IF ~HasIdProperty(node) THEN path
    ELSE PathFrom(ParentNode(node), <<"/">> \o IntToStr(SiblingIndex(node)) \o path)

\* derivePath() of a Video on element e.
DerivePath(e) == Str(PathFrom(e, <<"/">>))

\* FetchID as a best effort: an id from whichever part was derived.
FetchIDBestEffort(e, nodes) ==
    LET url == DeriveURL(nodes)
        path == DerivePath(e)
    IN  IF url = TypeError THEN TypeError
        ELSE IF Truthy(url) THEN Str(path.s \o url.s) ELSE path

\* fetchID(): the value assigned to this.id and returned; TypeError when
\* deriveURL() throws, and then this.id is not assigned.
FetchID(e, nodes) ==
    LET url == DeriveURL(nodes)
        path == DerivePath(e)
    IN  IF url = TypeError THEN TypeError
        ELSE IF Truthy(url) /\ Truthy(path) THEN Str(path.s \o url.s) ELSE Undefined

\* fetchTitle(): <<returned value, new this.title>> given the current title.
FetchTitle(nodes, title) ==
    LET old == QuerySelector(nodes, TitleSelectorOld)
        el == IF old # 0 THEN old ELSE QuerySelector(nodes, TitleSelectorNew)
    IN  IF el = 0 THEN <<Undefined, title>>
        ELSE LET attr == IF nodes[el].title = NoAttr THEN Undefined ELSE Str(nodes[el].title[1])
                 t == Or(attr, Str(Trim(nodes[el].text)))
             IN  <<t, t>>

\* GetViewedResult returning its verdict without storing it.
GetViewedNoStore(nodes, threshold, viewed) ==
    LET bar == QuerySelector(nodes, BarSelectors) IN
    IF bar = 0 THEN <<Undefined, viewed>>
    ELSE <<Bool(NumGE(ParseInt(SliceDropLast(nodes[bar].width)), threshold)), viewed>>

\* getViewed(threshold): <<returned value, new this.viewed>> given the current
\* viewed.
GetViewedResult(nodes, threshold, viewed) ==
    LET bar == QuerySelector(nodes, BarSelectors) IN
    IF bar = 0 THEN <<Undefined, viewed>>
    ELSE LET width == SliceDropLast(nodes[bar].width)
             progress == ParseInt(width)
             v == Bool(NumGE(progress, threshold))
         IN  <<v, v>>

\* What a call leaves in last: the operation, the Video it was called on, its
\* threshold or subextractor argument, the state of its target before the call
\* (the element's display; for insert and remove, whether the subextractor was
\* registered), the value returned and, for extract, the Videos returned.
Call(op, vid, arg, sub, pre, ret, out) ==
    [op |-> op, vid |-> vid, arg |-> arg, sub |-> sub, pre |-> pre, ret |-> ret, out |-> out]

\* new Video(element), kept by the caller.
Construct(e) ==
    /\ Len(videos) < MaxVideos
    /\ videos' = Append(videos, NewVideo(e))
    /\ last' = Call("new", Len(videos) + 1, 0, "", display[e], Undefined, <<>>)
    /\ UNCHANGED <<display, kids, subextractors>>

\* video.hide()
Hide(v) ==
    /\ v \in 1..Len(videos)
    /\ display' = [display EXCEPT ![videos[v].element] = "none"]
    /\ last' = Call("hide", v, 0, "", display[videos[v].element], Undefined, <<>>)
    /\ UNCHANGED <<kids, subextractors, videos>>

\* Show restoring a generic default instead of the captured value.
ShowDefault(v) ==
    /\ v \in 1..Len(videos)
    /\ display' = [display EXCEPT ![videos[v].element] = ""]
    /\ last' = Call("show", v, 0, "", display[videos[v].element], Undefined, <<>>)
    /\ UNCHANGED <<kids, subextractors, videos>>

\* video.show()
Show(v) ==
    /\ v \in 1..Len(videos)
    /\ display' = [display EXCEPT ![videos[v].element] = videos[v].display]
    /\ last' = Call("show", v, 0, "", display[videos[v].element], Undefined, <<>>)
    /\ UNCHANGED <<kids, subextractors, videos>>

\* GetViewed hiding the element of a Video it finds viewed.
GetViewedAutoHide(v, threshold) ==
    /\ v \in 1..Len(videos)
    /\ LET r == GetViewedResult(kids[videos[v].element], threshold, videos[v].viewed) IN
         /\ videos' = [videos EXCEPT ![v].viewed = r[2]]
         /\ display' = IF Truthy(r[1]) THEN [display EXCEPT ![videos[v].element] = "none"]
                       ELSE display
         /\ last' = Call("getViewed", v, threshold, "", display[videos[v].element], r[1], <<>>)
    /\ UNCHANGED <<kids, subextractors>>

\* video.getViewed(threshold)
GetViewed(v, threshold) ==
    /\ v \in 1..Len(videos)
    /\ LET r == GetViewedResult(kids[videos[v].element], threshold, videos[v].viewed) IN
         /\ videos' = [videos EXCEPT ![v].viewed = r[2]]
         /\ last' = Call("getViewed", v, threshold, "", display[videos[v].element], r[1], <<>>)
    /\ UNCHANGED <<display, kids, subextractors>>

\* video.deriveURL()
CallDeriveURL(v) ==
    /\ v \in 1..Len(videos)
    /\ last' = Call("deriveURL", v, 0, "", display[videos[v].element],
                    DeriveURL(kids[videos[v].element]), <<>>)
    /\ UNCHANGED <<display, kids, subextractors, videos>>

\* video.fetchID()
CallFetchID(v) ==
    /\ v \in 1..Len(videos)
    /\ LET r == FetchID(videos[v].element, kids[videos[v].element]) IN
         /\ videos' = IF r = TypeError THEN videos ELSE [videos EXCEPT ![v].id = r]
         /\ last' = Call("fetchID", v, 0, "", display[videos[v].element], r, <<>>)
    /\ UNCHANGED <<display, kids, subextractors>>

\* GetID deriving the id afresh on every call.
GetIDRefetch(v) ==
    /\ v \in 1..Len(videos)
    /\ LET r == FetchID(videos[v].element, kids[videos[v].element]) IN
         /\ videos' = IF r = TypeError THEN videos ELSE [videos EXCEPT ![v].id = r]
         /\ last' = Call("getID", v, 0, "", display[videos[v].element], r, <<>>)
    /\ UNCHANGED <<display, kids, subextractors>>

\* video.getID(): this.id || this.fetchID()
GetID(v) ==
    /\ v \in 1..Len(videos)
    /\ LET r == IF Truthy(videos[v].id) THEN videos[v].id
                ELSE FetchID(videos[v].element, kids[videos[v].element])
       IN
         /\ videos' = IF Truthy(videos[v].id) \/ r = TypeError THEN videos
                      ELSE [videos EXCEPT ![v].id = r]
         /\ last' = Call("getID", v, 0, "", display[videos[v].element], r, <<>>)
    /\ UNCHANGED <<display, kids, subextractors>>

\* video.fetchTitle()
CallFetchTitle(v) ==
    /\ v \in 1..Len(videos)
    /\ LET r == FetchTitle(kids[videos[v].element], videos[v].title) IN
         /\ videos' = [videos EXCEPT ![v].title = r[2]]
         /\ last' = Call("fetchTitle", v, 0, "", display[videos[v].element], r[1], <<>>)
    /\ UNCHANGED <<display, kids, subextractors>>

\* video.getTitle(): this.title || this.fetchTitle()
GetTitle(v) ==
    /\ v \in 1..Len(videos)
    /\ LET r == IF Truthy(videos[v].title) THEN <<videos[v].title, videos[v].title>>
                ELSE FetchTitle(kids[videos[v].element], videos[v].title)
       IN
         /\ videos' = [videos EXCEPT ![v].title = r[2]]
         /\ last' = Call("getTitle", v, 0, "", display[videos[v].element], r[1], <<>>)
    /\ UNCHANGED <<display, kids, subextractors>>

\* ----------------------------------------------------------- Extractor

\* Set.has(s), as the pre field of a call records it.
Registration(s) == IF \E i \in 1..Len(subextractors) : subextractors[i] = s
                   THEN "registered" ELSE ""

\* insert(subextractor): Set.add keeps the first insertion's position.
Insert(s) ==
    /\ subextractors' = IF \E i \in 1..Len(subextractors) : subextractors[i] = s
                        THEN subextractors ELSE Append(subextractors, s)
    /\ last' = Call("insert", 0, 0, s, Registration(s), Undefined, <<>>)
    /\ UNCHANGED <<display, kids, videos>>

\* Remove leaving the registry as it is.
RemoveNothing(s) ==
    /\ last' = Call("remove", 0, 0, s, Registration(s), Undefined, <<>>)
    /\ UNCHANGED <<display, kids, subextractors, videos>>

\* remove(subextractor): Set.delete.
Remove(s) ==
    /\ subextractors' = SelectSeq(subextractors, LAMBDA x : x # s)
    /\ last' = Call("remove", 0, 0, s, Registration(s), Undefined, <<>>)
    /\ UNCHANGED <<display, kids, videos>>

\* videos.filter(video => video.getViewed(threshold)) over elements.map(element
\* => new Video(element)): the Videos kept, each as getViewed left it.
RECURSIVE ViewedVideos(_, _)
ViewedVideos(elements, threshold) ==
    IF elements = <<>> THEN <<>>
    ELSE LET video == NewVideo(Head(elements))
             r == GetViewedResult(kids[video.element], threshold, video.viewed)
         IN  (IF Truthy(r[1]) THEN << [video EXCEPT !.viewed = r[2]] >> ELSE <<>>)
             \o ViewedVideos(Tail(elements), threshold)

\* The elements of extract(): every registered subextractor's matches, in the
\* order of the registry.
RECURSIVE ExtractedElements(_)
ExtractedElements(registry) ==
    IF registry = <<>> THEN <<>>
    ELSE Subextractor(Head(registry)) \o ExtractedElements(Tail(registry))

\* Extract emptying the registry it has run.
ExtractDrain(threshold) ==
    /\ last' = Call("extract", 0, threshold, "", "", Undefined,
                    ViewedVideos(ExtractedElements(subextractors), threshold))
    /\ subextractors' = <<>>
    /\ UNCHANGED <<display, kids, videos>>

\* extract(element, threshold) on the root.
Extract(threshold) ==
    /\ last' = Call("extract", 0, threshold, "", "", Undefined,
                    ViewedVideos(ExtractedElements(subextractors), threshold))
    /\ UNCHANGED <<display, kids, subextractors, videos>>

\* ------------------------------------------------------------ the page's part

HrefA == <<"/", "w", "a", "t", "c", "h", "?", "v", "=", "a", "1", "&", "t", "=", "5", "s">>

HrefB == <<"/", "w", "a", "t", "c", "h", "?", "v", "=", "B", "_", "2">>

HrefShorts == <<"/", "s", "h", "o", "r", "t", "s", "/", "x", "9">>

ThumbLink(href) ==
    Node("a", "", {"yt-lockup-view-model__content-image"}, href, NoAttr, <<>>, <<>>)

LockupTitle(href, text) ==
    Node("a", "", {"yt-lockup-view-model__title"}, href, NoAttr, text, <<>>)

SearchTitle(href, title) ==
    Node("a", "video-title", {"yt-simple-endpoint", "style-scope", "ytd-video-renderer"},
         href, title, <<>>, <<>>)

SegmentBar(width) ==
    Node("div", "", {"ytThumbnailOverlayProgressBarHostWatchedProgressBarSegment"},
         NoAttr, NoAttr, <<>>, width)

ResumeBar(width) ==
    Node("div", "progress", {"style-scope", "ytd-thumbnail-overlay-resume-playback-renderer"},
         NoAttr, NoAttr, <<>>, width)

\* A home-page lockup: the thumbnail link comes before the title link.
LockupSubtree == << ThumbLink(Attr(HrefB)), SegmentBar(<<"5", "0", "%">>),
                    LockupTitle(Attr(HrefA), <<" ", "T", " ">>) >>

\* A search result, watched to 49%.
SearchSubtree == << SearchTitle(Attr(HrefA), Attr(<<"S">>)), ResumeBar(<<"4", "9", "%">>) >>

\* A search result never watched: no progress bar.
UnwatchedSubtree == << SearchTitle(Attr(HrefA), Attr(<<>>)) >>

\* A thumbnail link that has no href yet.
NoHrefSubtree == << ThumbLink(NoAttr), ResumeBar(<<"1", "0", "0", "%">>) >>

\* A title link to a short (no v= parameter) before a thumbnail link to a
\* watch page; the bar has no inline width.
ShortsSubtree == << LockupTitle(Attr(HrefShorts), <<>>), ThumbLink(Attr(HrefA)), SegmentBar(<<>>) >>

\* A renderer the page has not filled in yet.
EmptySubtree == <<>>

PageSubtrees == {LockupSubtree, SearchSubtree, UnwatchedSubtree, NoHrefSubtree,
                 ShortsSubtree, EmptySubtree}

\* The page re-renders the inside of video element e.
PageRender(e, subtree) ==
    /\ kids[e] # subtree
    /\ kids' = [kids EXCEPT ![e] = subtree]
    /\ last' = Call("render", 0, 0, "", "", Undefined, <<>>)
    /\ UNCHANGED <<display, subextractors, videos>>

\* A renderer holding only a progress bar, and one holding only a link.
BarSubtree == << SegmentBar(<<"5", "0", "%">>) >>

LinkSubtree == << ThumbLink(Attr(HrefA)) >>

\* The inline display values a renderer starts with.
InitDisplays == <<"", "block">>

InitDisplay(e) == InitDisplays[((e - 1) % Len(InitDisplays)) + 1]

\* The subtrees of the page the content script is loaded into.
InitSubtrees == <<BarSubtree, LinkSubtree, EmptySubtree>>

NoCall == Call("", 0, 0, "", "", Undefined, <<>>)

\* ----------------------------------------------------- specifications

\* The content script starts on a rendered page: no Video yet, an Extractor
\* with an empty registry.
Init ==
    /\ display = [e \in Elems |-> InitDisplay(e)]
    /\ kids = [e \in Elems |-> InitSubtrees[((e - 1) % Len(InitSubtrees)) + 1]]
    /\ subextractors = <<>>
    /\ videos = <<>>
    /\ last = NoCall

\* Videos shown and hidden on a page that stays as it is.
Next ==
    \/ \E e \in Elems : Construct(e)
    \/ \E v \in 1..MaxVideos : Hide(v)
    \/ \E v \in 1..MaxVideos : Show(v)
    \/ \E v \in 1..MaxVideos : GetViewed(v, 50)
    \/ \E v \in 1..MaxVideos : GetID(v)
    \/ \E v \in 1..MaxVideos : GetTitle(v)
    \/ Insert("extractExploreVideos")
    \/ Extract(50)

Spec == Init /\ [][Next]_vars

\* Any page.
InitAnyPage ==
    /\ display = [e \in Elems |-> InitDisplay(e)]
    /\ kids \in [Elems -> PageSubtrees]
    /\ subextractors = <<>>
    /\ videos = <<>>
    /\ last = NoCall

\* The subextractors the content script registers and takes out again.
Registered == {"extractExploreVideos", "extractSearchVideos", "extractGridVideos",
               "extractHistoryVideos"}

Thresholds == {0, 50, 51}

\* The Extractor on a page that re-renders.
NextExtract ==
    \/ \E s \in Registered : Insert(s)
    \/ \E s \in Registered : Remove(s)
    \/ \E t \in Thresholds : Extract(t)
    \/ \E e \in Elems, subtree \in PageSubtrees : PageRender(e, subtree)

SpecExtract == InitAnyPage /\ [][NextExtract]_vars

\* new Video(element) as the only Video the caller holds.
ConstructOne(e) == videos = <<>> /\ Construct(e)

\* One Video on a page that re-renders.
NextVideo ==
    \/ \E e \in Elems : ConstructOne(e)
    \/ CallDeriveURL(1)
    \/ CallFetchID(1)
    \/ GetID(1)
    \/ CallFetchTitle(1)
    \/ GetTitle(1)
    \/ \E t \in {50, 100} : GetViewed(1, t)
    \/ \E e \in Elems, subtree \in PageSubtrees : PageRender(e, subtree)

SpecVideo == Init /\ [][NextVideo]_vars

\* A page whose progress bars all have the inline width w%.
InitViewed ==
    /\ display = [e \in Elems |-> InitDisplay(e)]
    /\ \E w \in 0..MaxPercent :
         kids = [e \in Elems |-> << ResumeBar(IntToStr(w) \o <<"%">>) >>]
    /\ subextractors = <<>>
    /\ videos = <<>>
    /\ last = NoCall

NextViewed ==
    \/ ConstructOne(1)
    \/ \E t \in 0..MaxPercent : GetViewed(1, t)

SpecViewed == InitViewed /\ [][NextViewed]_vars

\* ------------------------------------------------------------- properties

Range(seq) == {seq[i] : i \in 1..Len(seq)}

\* The elements a subextractor matches on the page.
Matched(s) == Range(Subextractor(s))

\* The element of the Video the last call was made on.
LastElement == videos[last.vid].element

\* What getID() gives on a Video as it is.
IdOf(video) == IF Truthy(video.id) THEN video.id
               ELSE FetchID(video.element, kids[video.element])

\* C1 as stated: show() right after hide() on the same Video leaves the
\* element's display equal to the value it had just before the hide(),
\* whatever Videos were constructed, hidden and shown before.
C1_HideShowRestoresPreHide ==
    [][(last.op = "hide" /\ last'.op = "show" /\ last'.vid = last.vid)
         => display'[videos[last.vid].element] = last.pre]_vars

\* C1 amended: show() right after hide() on the same Video leaves the element's
\* display equal to the value captured when that Video was constructed, which
\* is the pre-hide value whenever the display still had the captured value
\* when hide() was called.
C1_HideShowRestoresCaptured ==
    [][(last.op = "hide" /\ last'.op = "show" /\ last'.vid = last.vid)
         => /\ display'[videos[last.vid].element] = videos[last.vid].display
            /\ last.pre = videos[last.vid].display
                 => display'[videos[last.vid].element] = last.pre]_vars

\* show() has put a hidden element back to the "block" it was constructed with.
C1_ShownAgain ==
    /\ last.op = "show"
    /\ last.pre = "none"
    /\ videos[last.vid].display = "block"
    /\ display[LastElement] = "block"

\* C2 as stated: a newly constructed Video's element is visible, hide() always
\* leaves it hidden, show() always leaves it visible, and no other operation
\* changes the display of any element.
C2_TwoStateVisibility ==
    [][/\ last'.op = "new" => display'[videos'[last'.vid].element] # "none"
       /\ last'.op = "hide" => display'[videos'[last'.vid].element] = "none"
       /\ last'.op = "show" => display'[videos'[last'.vid].element] # "none"
       /\ last'.op \notin {"hide", "show"} => display' = display]_vars

\* C2 amended: hide() always leaves the element hidden; show() leaves it with
\* the display captured at construction, so visible exactly when the element
\* was visible when the Video was constructed; hide() and show() change no
\* other element, and no other operation changes the display of any element.
C2_VisibilityTransitions ==
    [][/\ last'.op = "hide" => display'[videos'[last'.vid].element] = "none"
       /\ last'.op = "show"
            => /\ display'[videos'[last'.vid].element] = videos[last'.vid].display
               /\ (display'[videos'[last'.vid].element] # "none")
                    = (videos[last'.vid].display # "none")
       /\ last'.op \in {"hide", "show"}
            => \A e \in Elems \ {videos'[last'.vid].element} : display'[e] = display[e]
       /\ last'.op \notin {"hide", "show"} => display' = display]_vars

\* hide() has hidden an element that was visible.
C2_HiddenFromVisible ==
    /\ last.op = "hide"
    /\ last.pre # "none"
    /\ display[LastElement] = "none"

\* The w of the inline width "w%" that every progress bar of the page has.
BarPercent ==
    CHOOSE w \in 0..MaxPercent : kids[1] = << ResumeBar(IntToStr(w) \o <<"%">>) >>

\* C3: with a progress bar of inline width w%, getViewed(t) returns true iff
\* w >= t, and when it returns true it does so for every smaller threshold.
C3_ViewedIffAtLeast ==
    last.op = "getViewed"
      => /\ last.ret = Bool(BarPercent >= last.arg)
         /\ last.ret = Bool(TRUE)
              => \A t1 \in 0..last.arg :
                   GetViewedResult(kids[LastElement], t1, Undefined)[1] = Bool(TRUE)

\* getViewed(50) has returned true on a bar of width 50%.
C3_Boundary ==
    /\ last.op = "getViewed"
    /\ last.arg = 50
    /\ BarPercent = 50
    /\ last.ret = Bool(TRUE)

\* C4 as stated: extract right after remove(s) of a registered s returns no
\* element that s matches.
C4_RemovedElementsAbsent ==
    [][(last.op = "remove" /\ last.pre = "registered" /\ last'.op = "extract")
         => \A i \in 1..Len(last'.out) : last'.out[i].element \notin Matched(last.sub)]_vars

\* C4 amended: extract right after remove(s) of a registered s runs without s,
\* and every element it returns is matched by a subextractor still registered:
\* an element that only s matches is absent, one that a remaining subextractor
\* also matches is still returned.
C4_OnlyRemainingMatch ==
    [][(last.op = "remove" /\ last.pre = "registered" /\ last'.op = "extract")
         => /\ \A j \in 1..Len(subextractors') : subextractors'[j] # last.sub
            /\ \A i \in 1..Len(last'.out) :
                 \E j \in 1..Len(subextractors') :
                   last'.out[i].element \in Matched(subextractors'[j])]_vars

\* extract has returned Videos while a subextractor that is not registered
\* matches a viewed element, and that element is not among them.
C4_UnregisteredAbsent ==
    /\ last.op = "extract"
    /\ last.out # <<>>
    /\ \E s \in Registered :
         /\ Registration(s) = ""
         /\ \E e \in Matched(s) :
              /\ Truthy(GetViewedResult(kids[e], last.arg, Undefined)[1])
              /\ \A i \in 1..Len(last.out) : last.out[i].element # e

\* C5: after extract(root, t), a second extract(root, t) would return as many
\* Videos, wrapping the same elements with the same getID() values position
\* by position; extract changes neither the registry nor the DOM.
C5_ExtractIdempotent ==
    /\ [](last.op = "extract"
            => LET again == ViewedVideos(ExtractedElements(subextractors), last.arg) IN
               /\ Len(again) = Len(last.out)
               /\ \A i \in 1..Len(last.out) :
                    /\ again[i].element = last.out[i].element
                    /\ IdOf(again[i]) = IdOf(last.out[i]))
    /\ [][last'.op = "extract" => UNCHANGED <<display, kids, subextractors>>]_vars

\* extract has returned two Videos, one of them with a defined id.
C5_TwoExtracted ==
    /\ last.op = "extract"
    /\ Len(last.out) >= 2
    /\ \E i \in 1..Len(last.out) : Truthy(IdOf(last.out[i]))

\* The anchor the earliest matching selector of the list selects: 0 when no
\* selector matches.
PriorityAnchor(nodes) ==
    LET sels == {i \in 1..Len(AnchorSelectors) :
                   \E n \in 1..Len(nodes) : Matches(nodes[n], AnchorSelectors[i])}
    IN  IF sels = {} THEN 0
        ELSE QuerySelector(nodes, << AnchorSelectors[CHOOSE i \in sels : \A j \in sels : i <= j] >>)

\* C6: deriveURL() parses the id from the href of the anchor that matches the
\* earliest selector of the list, whatever the document order of the anchors.
C6_SelectorPriority ==
    last.op = "deriveURL"
      => LET nodes == kids[LastElement]
             a == PriorityAnchor(nodes)
         IN  (a # 0 /\ nodes[a].href # NoAttr)
               => last.ret = IF RegexMatch(nodes[a].href[1]) = <<>> THEN Undefined
                             ELSE Str(RegexMatch(nodes[a].href[1]))

\* An href holding v= followed by an id character.
HasVParam(href) ==
    \E k \in 1..(Len(href) - 2) : href[k] = "v" /\ href[k + 1] = "=" /\ href[k + 2] \in IdChars

\* The anchors of a subtree that a selector matches and whose href is parseable.
ParseableAnchors(nodes) ==
    {i \in 1..Len(nodes) : /\ MatchesAny(nodes[i], AnchorSelectors)
                           /\ nodes[i].href # NoAttr
                           /\ HasVParam(nodes[i].href[1])}

\* The first anchor in document order that a selector matches is parseable.
FirstAnchorParseable(nodes) ==
    \E i \in ParseableAnchors(nodes) : \A j \in 1..(i - 1) : ~MatchesAny(nodes[j], AnchorSelectors)

\* C7 as stated: getID() on a truthy id returns it and leaves it; getID() on an
\* undefined id returns a truthy id as soon as the subtree holds a parseable
\* anchor.
C7_MemoAndRetryAnyAnchor ==
    [][last'.op = "getID"
         => /\ Truthy(videos[last'.vid].id)
                 => last'.ret = videos[last'.vid].id /\ videos'[last'.vid].id = videos[last'.vid].id
            /\ (~Truthy(videos[last'.vid].id)
                  /\ ParseableAnchors(kids[videos[last'.vid].element]) # {})
                 => Truthy(last'.ret)]_vars

\* C7 amended: getID() on a truthy id returns it and leaves it, whatever the
\* DOM has become; getID() on an undefined id runs fetchID() again and, as soon
\* as the first matching anchor in document order has a parseable href,
\* returns a truthy id and memoizes it.
C7_MemoAndRetry ==
    [][last'.op = "getID"
         => /\ Truthy(videos[last'.vid].id)
                 => last'.ret = videos[last'.vid].id /\ videos'[last'.vid].id = videos[last'.vid].id
            /\ ~Truthy(videos[last'.vid].id)
                 => /\ last'.ret = FetchID(videos[last'.vid].element, kids[videos[last'.vid].element])
                    /\ FirstAnchorParseable(kids[videos[last'.vid].element])
                         => Truthy(last'.ret) /\ videos'[last'.vid].id = last'.ret]_vars

\* getID() has returned the memoized id although the DOM now derives another.
C7_MemoizedAfterChange ==
    /\ last.op = "getID"
    /\ Truthy(last.ret)
    /\ videos[last.vid].id = last.ret
    /\ FetchID(LastElement, kids[LastElement]) # last.ret

\* C8: no lookup throws: deriveURL() returns undefined when no anchor matches,
\* when the matched anchor has no href and when the href has no v= parameter;
\* getViewed() returns undefined when there is no progress bar; fetchTitle()
\* returns undefined when there is no title element; a subextractor whose
\* selectors match nothing contributes no element.
C8_NotFoundNeverThrows ==
    /\ last.ret # TypeError
    /\ last.op = "deriveURL"
         => LET nodes == kids[LastElement]
                a == QuerySelector(nodes, AnchorSelectors)
            IN  (a = 0 \/ nodes[a].href = NoAttr \/ ~HasVParam(nodes[a].href[1]))
                  => last.ret = Undefined
    /\ (last.op = "getViewed" /\ QuerySelector(kids[LastElement], BarSelectors) = 0)
         => last.ret = Undefined
    /\ (last.op = "fetchTitle"
          /\ QuerySelector(kids[LastElement], TitleSelectorOld) = 0
          /\ QuerySelector(kids[LastElement], TitleSelectorNew) = 0)
         => last.ret = Undefined
    /\ \A s \in Subextractors :
         (\A e \in Elems : \A i \in 1..Len(SubSelectors(s)) : ~VMatches(Layout(e), SubSelectors(s)[i]))
           => Subextractor(s) = <<>>

\* C9 as stated: after every getViewed(t) the viewed field equals the value
\* the call returned.
C9_ViewedAlwaysOverwritten ==
    last.op = "getViewed" => videos[last.vid].viewed = last.ret

\* C9 amended: a getViewed(t) that finds a progress bar returns a boolean and
\* stores it in viewed; one that finds none returns undefined and leaves
\* viewed as it was.
C9_ViewedOverwrittenWhenBarFound ==
    [][last'.op = "getViewed"
         => IF QuerySelector(kids[videos[last'.vid].element], BarSelectors) # 0
            THEN last'.ret.k = "boolean" /\ videos'[last'.vid].viewed = last'.ret
            ELSE last'.ret = Undefined /\ videos'[last'.vid].viewed = videos[last'.vid].viewed]_vars

\* getViewed() has returned undefined on a Video whose viewed holds an
\* earlier verdict.
C9_StaleViewed ==
    /\ last.op = "getViewed"
    /\ last.ret = Undefined
    /\ videos[last.vid].viewed # Undefined

\* C10: fetchID() stores what it returns; it returns a defined id only when
\* deriveURL() and derivePath() are both truthy, and the id is then the path
\* followed by the URL id; when one is truthy and the other is not, it stores
\* and returns undefined.
C10_FetchIDConjunction ==
    last.op = "fetchID"
      => LET url == DeriveURL(kids[LastElement])
             path == DerivePath(LastElement)
         IN  /\ last.ret # TypeError => videos[last.vid].id = last.ret
             /\ last.ret \notin {Undefined, TypeError}
                  => /\ Truthy(url) /\ Truthy(path)
                     /\ last.ret = Str(path.s \o url.s)
             /\ ((Truthy(url) /\ ~Truthy(path)) \/ (Truthy(path) /\ url = Undefined))
                  => last.ret = Undefined /\ videos[last.vid].id = Undefined

\* fetchID() has returned undefined for a Video whose path is derived and
\* whose URL is not.
C10_PathWithoutURL ==
    /\ last.op = "fetchID"
    /\ last.ret = Undefined
    /\ Truthy(DerivePath(LastElement))
    /\ DeriveURL(kids[LastElement]) = Undefined

====
